---- MODULE Spec2Model ----
(***************************************************************************)
(* Model of vk_cloud_ip_reserver.py: MAX_WORKERS worker threads run        *)
(* process_ip_reservation in a ThreadPoolExecutor; main() iterates         *)
(* as_completed(futures); all threads share shutdown_event, reserved_ips,  *)
(* stats_lock and the statistics file STATS_FILE.  The provider (Neutron   *)
(* API) is the environment: every call returns one of the outcomes the     *)
(* client code distinguishes.  Time stamps and log/Telegram texts are not  *)
(* part of the state.                                                      *)
(***************************************************************************)
EXTENDS Integers, Sequences, FiniteSets, TLC

\* ---------------------------------------------------------------- bounds
NumWorkers == 2        \* worker threads of the model (MAX_WORKERS in the code)
MaxIds == 2            \* floating IPs the provider hands out in one run


\* ------------------------------------------------------------- addresses
\* ipaddress.IPv4Address as its 32-bit value (all octets used here are < 128)
IPv4(a, b, c, d) == ((a * 256 + b) * 256 + c) * 256 + d

IP_RANGES ==
  << <<IPv4(109, 120, 188, 0), IPv4(109, 120, 191, 255)>>,
     <<IPv4(89, 208, 228, 0),  IPv4(89, 208, 231, 255)>>,
     <<IPv4(5, 188, 140, 0),   IPv4(5, 188, 143, 255)>>,
     <<IPv4(95, 163, 248, 0),  IPv4(95, 163, 251, 255)>> >>

\* addresses the provider hands out in the model: one inside the third
\* range and its lower neighbour, which is outside every range
ProviderAddrs == {IPv4(5, 188, 140, 0), IPv4(5, 188, 139, 255)}
\* no address: the local ip_address is unassigned
NoAddr == -1

is_ip_in_range(ip) ==
  \E i \in 1..Len(IP_RANGES) : IP_RANGES[i][1] <= ip /\ ip <= IP_RANGES[i][2]

\* ------------------------------------------------------------ statistics
\* the record load_statistics returns when the file is missing or unreadable
DefaultStats ==
  [total_attempts |-> 0, ip_addresses |-> [a \in {} |-> 0]]

\* the dict ip_addresses {ip: count}: the count of ip, and the dict after
\* "if ip in d: d[ip] += 1 else: d[ip] = 1"
Count(d, ip) == IF ip \in DOMAIN d THEN d[ip] ELSE 0
\* Faulty variant of Incr: the count is set to 1, never added to.
Incr_set(d, ip) ==
  [a \in DOMAIN d \cup {ip} |-> IF a = ip THEN 1 ELSE d[a]]

Incr(d, ip) ==
  [a \in DOMAIN d \cup {ip} |-> IF a = ip THEN Count(d, ip) + 1 ELSE d[a]]

\* "for ip in ips:" of the VM creator's update_statistics
RECURSIVE IncrAll(_, _)
IncrAll(d, ips) ==
  IF ips = <<>> THEN d ELSE IncrAll(Incr(d, Head(ips)), Tail(ips))

RECURSIVE SumCounts(_, _)
SumCounts(f, S) ==
  IF S = {} THEN 0
  ELSE LET a == CHOOSE x \in S : TRUE IN f[a] + SumCounts(f, S \ {a})

VARIABLES
  pc,              \* worker -> position in process_ip_reservation
  ip_id,           \* worker -> local ip_id (0: none)
  ip_address,      \* worker -> local ip_address (NoAddr: none)
  stats,           \* worker -> local dict of update_statistics
  future,          \* worker -> "pending" | "None" | "Result" | "SystemExit"
  shutdown_event,  \* threading.Event: is it set
  reserved_ips,    \* global list of tracked ids (ids are unique: a set)
  stats_lock,      \* 0, or the worker holding the lock
  STATS_FILE,      \* [state: "absent" | "partial" | "ok", data: record]
  cloud,           \* ids allocated at the provider and not deleted
  next_id,         \* next id the provider allocates
  finished,        \* completed futures as_completed has not yielded, in order
  yielded,         \* futures as_completed has yielded
  main_pc,         \* "as_completed" | "exit_with" | "exited"
  outcome,         \* how main left the loop
  main_result,     \* ip_id of the result main returns (0: none)
  exit_code,       \* process exit code (-1: still running)
  hist,            \* history record, read by the properties only
  arg,             \* arguments of the function call under study (<<>>: none)
  ret              \* that call's locals and what it returned or raised

\* the worker threads: range(1, MAX_WORKERS + 1)
Workers == DOMAIN pc

vars == <<pc, ip_id, ip_address, stats, future, shutdown_event, reserved_ips,
          stats_lock, STATS_FILE, cloud, next_id, finished, yielded, main_pc,
          outcome, main_result, exit_code, hist, arg, ret>>

wvars == <<pc, ip_id, ip_address, stats, future>>
mvars == <<finished, yielded, main_pc, outcome, main_result, exit_code>>
svars == <<stats_lock, STATS_FILE>>
cvars == <<cloud, next_id, reserved_ips>>
fvars == <<arg, ret>>

\* the history record before anything happened
NoHistory ==
  [calls |-> 0,          \* update_statistics calls that returned
   max_total |-> 0,      \* largest total_attempts persisted so far
   uncleaned |-> {},     \* ids tracked at the first 401, no delete called since
   first |-> 0,          \* the first worker that returned a result
   first_clear |-> FALSE] \* was the event clear when it did

\* everything but the workers' positions and the statistics file, as the
\* module leaves it at import
Runtime(W) ==
  /\ ip_id = [w \in W |-> 0]
  /\ ip_address = [w \in W |-> NoAddr]
  /\ stats = [w \in W |-> DefaultStats]
  /\ future = [w \in W |-> "pending"]
  /\ shutdown_event = FALSE
  /\ reserved_ips = {}
  /\ stats_lock = 0
  /\ cloud = {}
  /\ next_id = 1
  /\ finished = <<>>
  /\ yielded = {}
  /\ main_pc = "as_completed"
  /\ outcome = "running"
  /\ main_result = 0
  /\ exit_code = -1
  /\ hist = NoHistory

\* the same, and no statistics file from an earlier run
Globals(W) ==
  /\ Runtime(W)
  /\ STATS_FILE = [state |-> "absent", data |-> DefaultStats]

\* no function is studied on its own
NoCall == arg = <<>> /\ ret = <<>>

\* main() has submitted the workers and entered as_completed
Init ==
  /\ pc = [w \in 1..NumWorkers |-> "wait"]
  /\ Globals(1..NumWorkers)
  /\ NoCall

Max(a, b) == IF a >= b THEN a ELSE b

\* has a worker met a 401 (it is in, or past, check_and_notify_auth_error)
AuthFailed == \E w \in Workers : pc[w] = "auth_exit" \/ future[w] = "SystemExit"

\* ------------------------------------------------------ history updates
\* a 401 of a call about resource id (0: a create)
HAuth(h, id) ==
  IF AuthFailed THEN [h EXCEPT !.uncleaned = @ \ {id}]
  ELSE [h EXCEPT !.uncleaned = reserved_ips \ {id}]
HDelete(h, id) == [h EXCEPT !.uncleaned = @ \ {id}]

\* ------------------------------------------------- leaving the worker
\* the worker function returns or raises: its future completes, and the
\* waiter of as_completed, while main iterates it, notes the completion
Complete(w, how) ==
  /\ pc' = [pc EXCEPT ![w] = "done"]
  /\ future' = [future EXCEPT ![w] = how]
  /\ finished' = IF main_pc = "as_completed" THEN Append(finished, w)
                 ELSE finished

\* a check of shutdown_event that returns None when it is set
\* (shutdown_event.is_set() at the loop top, human_like_wait elsewhere)
CheckShutdown(w, goon) ==
  /\ IF shutdown_event
       THEN Complete(w, "None")
       ELSE /\ pc' = [pc EXCEPT ![w] = goon]
            /\ UNCHANGED <<future, finished>>
  /\ UNCHANGED <<fvars, ip_id, ip_address, stats, shutdown_event, svars, cvars,
                  yielded, main_pc, outcome, main_result, exit_code, hist>>

\* The cancellable stretch between two provider calls: the pauses that end
\* an iteration (human_like_wait(retry_delay), the review pause,
\* human_like_wait(post_delete_delay)), "if shutdown_event.is_set(): return
\* None" at the loop top, the breaks, the thinking pause and
\* human_like_wait(delay), delay >= 1.  Each of them returns None when it
\* finds the event set and has no other effect, so the stretch is one check:
\* the last one before create_floating_ip (human_like_wait below).
\* Faulty variant: the value human_like_wait returns is not looked at.
human_like_wait_ignored(w) ==
  /\ pc[w] = "wait"
  /\ pc' = [pc EXCEPT ![w] = "create"]
  /\ UNCHANGED <<fvars, ip_id, ip_address, stats, future, shutdown_event, svars,
                  cvars, mvars, hist>>

human_like_wait(w) ==
  /\ pc[w] = "wait"
  /\ CheckShutdown(w, "create")

\* check_and_notify_auth_error on a 401: the event is set; the summary is
\* built and sent, and sys.exit(1) follows in AuthExit
check_and_notify_auth_error(w, id) ==
  /\ shutdown_event' = TRUE
  /\ pc' = [pc EXCEPT ![w] = "auth_exit"]
  /\ hist' = HAuth(hist, id)

\* ------------------------------------------- client.create_floating_ip
\* 2xx with an id and an address: the id is tracked, update_statistics begins
CreateOk(w) ==
  /\ pc[w] = "create"
  /\ next_id <= MaxIds
  /\ \E a \in ProviderAddrs :
       /\ ip_id' = [ip_id EXCEPT ![w] = next_id]
       /\ ip_address' = [ip_address EXCEPT ![w] = a]
  /\ cloud' = cloud \cup {next_id}
  /\ next_id' = next_id + 1
  /\ reserved_ips' = reserved_ips \cup {next_id}
  /\ pc' = [pc EXCEPT ![w] = "load"]
  /\ UNCHANGED <<fvars, stats, future, shutdown_event, svars, mvars, hist>>

\* 2xx whose body has an id but no floating_ip_address: "continue"
CreateNoAddr(w) ==
  /\ pc[w] = "create"
  /\ next_id <= MaxIds
  /\ cloud' = cloud \cup {next_id}
  /\ next_id' = next_id + 1
  /\ pc' = [pc EXCEPT ![w] = "wait"]
  /\ UNCHANGED <<fvars, ip_id, ip_address, stats, future, shutdown_event,
                  reserved_ips, svars, mvars, hist>>

\* Faulty variant of CreateFail: the worker gives up after a failed create.
CreateFail_gives_up(w) ==
  /\ pc[w] = "create"
  /\ Complete(w, "None")
  /\ UNCHANGED <<fvars, ip_id, ip_address, stats, shutdown_event, svars, cvars,
                  yielded, main_pc, outcome, main_result, exit_code, hist>>

\* a RequestException that is no 401: None is returned, the worker backs off
CreateFail(w) ==
  /\ pc[w] = "create"
  /\ pc' = [pc EXCEPT ![w] = "wait"]
  /\ UNCHANGED <<fvars, ip_id, ip_address, stats, future, shutdown_event, svars,
                  cvars, mvars, hist>>

\* HTTP 401
Create401(w) ==
  /\ pc[w] = "create"
  /\ check_and_notify_auth_error(w, 0)
  /\ UNCHANGED <<fvars, ip_id, ip_address, stats, future, svars, cvars, mvars>>

\* sys.exit(1) in the worker thread: SystemExit becomes the future's exception
AuthExit(w) ==
  /\ pc[w] = "auth_exit"
  /\ Complete(w, "SystemExit")
  /\ UNCHANGED <<fvars, ip_id, ip_address, stats, shutdown_event, svars, cvars,
                  yielded, main_pc, outcome, main_result, exit_code, hist>>

\* ------------------------------------------------------ update_statistics
\* load_statistics reads the file without the lock; a missing file, or one
\* a writer has truncated and not yet filled, gives the default record
load_statistics ==
  IF STATS_FILE.state = "ok" THEN STATS_FILE.data ELSE DefaultStats

\* stats = load_statistics(); total_attempts += 1; ip_addresses[ip] += 1
UpdateLoad(w) ==
  /\ pc[w] = "load"
  /\ stats' = [stats EXCEPT ![w] =
       [total_attempts |-> load_statistics.total_attempts + 1,
        ip_addresses |-> Incr(load_statistics.ip_addresses, ip_address[w])]]
  /\ pc' = [pc EXCEPT ![w] = "save"]
  /\ UNCHANGED <<fvars, ip_id, ip_address, future, shutdown_event, svars, cvars,
                  mvars, hist>>

\* save_statistics: with stats_lock: open(STATS_FILE, 'w') truncates the file
SaveOpen(w) ==
  /\ pc[w] = "save"
  /\ stats_lock = 0
  /\ stats_lock' = w
  /\ STATS_FILE' = [state |-> "partial", data |-> DefaultStats]
  /\ pc' = [pc EXCEPT ![w] = "dump"]
  /\ UNCHANGED <<fvars, ip_id, ip_address, stats, future, shutdown_event, cvars,
                  mvars, hist>>

\* Faulty variant of SaveDump: the every-100th push is sent inside
\* "with stats_lock".
SaveDump_keeps_lock(w) ==
  /\ pc[w] = "dump"
  /\ stats_lock = w
  /\ STATS_FILE' = [state |-> "ok", data |-> stats[w]]
  /\ stats_lock' = IF stats[w].total_attempts % 100 = 0 THEN w ELSE 0
  /\ stats' = [stats EXCEPT ![w] = DefaultStats]
  /\ pc' = [pc EXCEPT ![w] =
              IF stats[w].total_attempts % 100 = 0 THEN "push" ELSE "test"]
  /\ hist' = [hist EXCEPT !.calls = @ + 1,
                           !.max_total = Max(@, stats[w].total_attempts)]
  /\ UNCHANGED <<fvars, ip_id, ip_address, future, shutdown_event, cvars, mvars>>

\* json.dump and close; the lock is released; save_statistics returns, and
\* "if stats['total_attempts'] % 100 == 0" decides on the push
SaveDump(w) ==
  /\ pc[w] = "dump"
  /\ stats_lock = w
  /\ STATS_FILE' = [state |-> "ok", data |-> stats[w]]
  /\ stats_lock' = 0
  /\ stats' = [stats EXCEPT ![w] = DefaultStats]
  /\ pc' = [pc EXCEPT ![w] =
              IF stats[w].total_attempts % 100 = 0 THEN "push" ELSE "test"]
  /\ hist' = [hist EXCEPT !.calls = @ + 1,
                           !.max_total = Max(@, stats[w].total_attempts)]
  /\ UNCHANGED <<fvars, ip_id, ip_address, future, shutdown_event, cvars, mvars>>

\* send_telegram_message with the interim statistics; update_statistics
\* returns
Push(w) ==
  /\ pc[w] = "push"
  /\ pc' = [pc EXCEPT ![w] = "test"]
  /\ UNCHANGED <<fvars, ip_id, ip_address, stats, future, shutdown_event,
                  svars, cvars, mvars, hist>>

\* ------------------------------------------------ is_ip_in_range(ip_address)
\* in range: the success message is sent and the result dict returned;
\* the id stays in reserved_ips.  Otherwise the worker goes on to release it
TestRange(w) ==
  /\ pc[w] = "test"
  /\ IF is_ip_in_range(ip_address[w])
       THEN /\ Complete(w, "Result")
            /\ hist' = IF hist.first # 0 THEN hist
                       ELSE [hist EXCEPT !.first = w,
                                         !.first_clear = ~shutdown_event]
       ELSE /\ pc' = [pc EXCEPT ![w] = "delete"]
            /\ UNCHANGED <<future, finished, hist>>
  /\ UNCHANGED <<fvars, ip_id, ip_address, stats, shutdown_event, svars, cvars,
                  yielded, main_pc, outcome, main_result, exit_code>>

\* ------------------------------------------- client.delete_floating_ip
\* after the delete call the locals ip_id and ip_address are not read again
\* before the next reservation assigns them
Forget(w) ==
  /\ ip_id' = [ip_id EXCEPT ![w] = 0]
  /\ ip_address' = [ip_address EXCEPT ![w] = NoAddr]

\* Faulty variant of DeleteOk: the worker releases every tracked id, as
\* cleanup_floating_ips would.
DeleteOk_all(w) ==
  /\ pc[w] = "delete"
  /\ cloud' = cloud \ reserved_ips
  /\ reserved_ips' = {}
  /\ pc' = [pc EXCEPT ![w] = "wait"]
  /\ hist' = HDelete(hist, ip_id[w])
  /\ Forget(w)
  /\ UNCHANGED <<fvars, stats, future, shutdown_event, next_id, svars, mvars>>

\* True: the id is removed from reserved_ips
DeleteOk(w) ==
  /\ pc[w] = "delete"
  /\ cloud' = cloud \ {ip_id[w]}
  /\ reserved_ips' = reserved_ips \ {ip_id[w]}
  /\ pc' = [pc EXCEPT ![w] = "wait"]
  /\ hist' = HDelete(hist, ip_id[w])
  /\ Forget(w)
  /\ UNCHANGED <<fvars, stats, future, shutdown_event, next_id, svars, mvars>>

\* Faulty variant of DeleteFail: the id is removed from reserved_ips though
\* the delete failed.
DeleteFail_untracks(w) ==
  /\ pc[w] = "delete"
  /\ reserved_ips' = reserved_ips \ {ip_id[w]}
  /\ pc' = [pc EXCEPT ![w] = "wait"]
  /\ hist' = HDelete(hist, ip_id[w])
  /\ Forget(w)
  /\ UNCHANGED <<fvars, stats, future, shutdown_event, svars, cloud, next_id,
                  mvars>>

\* a RequestException that is no 401: False, the id stays tracked
DeleteFail(w) ==
  /\ pc[w] = "delete"
  /\ pc' = [pc EXCEPT ![w] = "wait"]
  /\ hist' = HDelete(hist, ip_id[w])
  /\ Forget(w)
  /\ UNCHANGED <<fvars, stats, future, shutdown_event, svars, cvars, mvars>>

\* HTTP 401
Delete401(w) ==
  /\ pc[w] = "delete"
  /\ check_and_notify_auth_error(w, ip_id[w])
  /\ Forget(w)
  /\ UNCHANGED <<fvars, stats, future, svars, cvars, mvars>>

\* ------------------------------------------------------------------ main
\* main leaves the loop (break, return, an exception, the loop's end) and
\* with it the as_completed generator, whose bookkeeping is dropped
LeaveLoop(how) ==
  /\ main_pc' = "exit_with"
  /\ outcome' = how
  /\ finished' = <<>>
  /\ yielded' = {}

\* one iteration of "for future in as_completed(futures)", or the loop's end
MainLoop ==
  /\ main_pc = "as_completed"
  /\ IF yielded = Workers
       THEN \* every future was yielded: "Process completed"
            /\ LeaveLoop("completed")
            /\ UNCHANGED <<main_result, shutdown_event>>
       ELSE /\ finished # <<>>
            /\ LET f == Head(finished) IN
               /\ IF shutdown_event
                    THEN \* if shutdown_event.is_set(): break
                         /\ LeaveLoop("completed")
                         /\ UNCHANGED <<main_result, shutdown_event>>
                    ELSE CASE future[f] = "Result" ->
                                \* shutdown_event.set(); return result
                                /\ shutdown_event' = TRUE
                                /\ main_result' = ip_id[f]
                                /\ LeaveLoop("result")
                           [] future[f] = "SystemExit" ->
                                \* future.result() raises SystemExit, which
                                \* "except Exception" does not catch
                                /\ LeaveLoop("SystemExit")
                                /\ UNCHANGED <<main_result, shutdown_event>>
                           [] OTHER ->
                                \* result is None: next future
                                /\ finished' = Tail(finished)
                                /\ yielded' = yielded \cup {f}
                                /\ UNCHANGED <<main_pc, outcome, main_result,
                                               shutdown_event>>
  /\ UNCHANGED <<fvars, wvars, svars, cvars, exit_code, hist>>

\* Faulty variant of ExitWith: shutdown(wait=False), the workers are not
\* joined.
ExitWith_nowait ==
  /\ main_pc = "exit_with"
  /\ main_pc' = "exited"
  /\ exit_code' = IF outcome = "SystemExit" THEN 1 ELSE 0
  /\ UNCHANGED <<fvars, wvars, shutdown_event, svars, cvars, finished, yielded,
                  outcome, main_result, hist>>

\* leaving "with ThreadPoolExecutor": shutdown(wait=True) joins the workers,
\* then main returns or the exception ends the process
ExitWith ==
  /\ main_pc = "exit_with"
  /\ \A w \in Workers : future[w] # "pending"
  /\ main_pc' = "exited"
  /\ exit_code' = IF outcome = "SystemExit" THEN 1 ELSE 0
  /\ UNCHANGED <<fvars, wvars, shutdown_event, svars, cvars, finished, yielded,
                  outcome, main_result, hist>>

\* Faulty variant of signal_handler: cleanup_floating_ips is run, and it
\* releases every id in reserved_ips.
signal_handler_cleanup ==
  /\ main_pc # "exited"
  /\ shutdown_event' = TRUE
  /\ LeaveLoop("interrupt")
  /\ main_result' = 0
  /\ cloud' = cloud \ reserved_ips
  /\ reserved_ips' = {}
  /\ UNCHANGED <<fvars, wvars, svars, next_id, exit_code, hist>>

\* Faulty variant of signal_handler: the event is flipped instead of set.
signal_handler_toggle ==
  /\ main_pc # "exited"
  /\ shutdown_event' = ~shutdown_event
  /\ LeaveLoop("interrupt")
  /\ main_result' = 0
  /\ UNCHANGED <<fvars, wvars, svars, cvars, exit_code, hist>>

\* SIGINT: the handler runs in the main thread, sets the event, sends the
\* summary and raises SystemExit(0) there
signal_handler ==
  /\ main_pc # "exited"
  /\ shutdown_event' = TRUE
  /\ LeaveLoop("interrupt")
  /\ main_result' = 0
  /\ UNCHANGED <<fvars, wvars, svars, cvars, exit_code, hist>>

\* ------------------------------------------------------- specification
Worker(w) ==
  \/ human_like_wait(w)
  \/ CreateOk(w) \/ CreateNoAddr(w) \/ CreateFail(w) \/ Create401(w)
  \/ AuthExit(w)
  \/ UpdateLoad(w) \/ SaveOpen(w) \/ SaveDump(w)
  \/ TestRange(w)
  \/ DeleteOk(w) \/ DeleteFail(w) \/ Delete401(w)

Next ==
  \/ \E w \in Workers : Worker(w)
  \/ MainLoop
  \/ ExitWith
  \/ signal_handler

Spec == Init /\ [][Next]_vars

\* Scheduling: every worker thread keeps running and every provider call
\* it makes returns; the main thread keeps running.  No SIGINT has to come.
Fairness ==
  /\ \A w \in 1..NumWorkers : WF_vars(Worker(w))
  /\ WF_vars(MainLoop)
  /\ WF_vars(ExitWith)

FairSpec == Spec /\ Fairness

\* ------------------------------------- a run with a failing file system
\* load_statistics: open or json.load raises; "except Exception" logs and
\* returns the default record, which update_statistics increments
UpdateLoadFail(w) ==
  /\ pc[w] = "load"
  /\ stats' = [stats EXCEPT ![w] =
       [total_attempts |-> DefaultStats.total_attempts + 1,
        ip_addresses |-> Incr(DefaultStats.ip_addresses, ip_address[w])]]
  /\ pc' = [pc EXCEPT ![w] = "save"]
  /\ UNCHANGED <<fvars, ip_id, ip_address, future, shutdown_event, svars,
                  cvars, mvars, hist>>

\* Faulty variant of SaveOpenFail: the exception leaves update_statistics
\* and the worker function.
SaveOpenFail_raises(w) ==
  /\ pc[w] = "save"
  /\ stats_lock = 0
  /\ Complete(w, "Exception")
  /\ UNCHANGED <<fvars, ip_id, ip_address, stats, shutdown_event, svars,
                  cvars, yielded, main_pc, outcome, main_result, exit_code,
                  hist>>

\* save_statistics: the lock is taken, open(STATS_FILE, 'w') raises, "with"
\* releases the lock, "except Exception" logs; the file is as it was
SaveOpenFail(w) ==
  /\ pc[w] = "save"
  /\ stats_lock = 0
  /\ stats' = [stats EXCEPT ![w] = DefaultStats]
  /\ pc' = [pc EXCEPT ![w] =
              IF stats[w].total_attempts % 100 = 0 THEN "push" ELSE "test"]
  /\ hist' = [hist EXCEPT !.calls = @ + 1]
  /\ UNCHANGED <<fvars, ip_id, ip_address, future, shutdown_event, svars,
                  cvars, mvars>>

\* save_statistics: json.dump raises after the file was truncated; the lock
\* is released and the file stays incomplete
SaveDumpFail(w) ==
  /\ pc[w] = "dump"
  /\ stats_lock = w
  /\ stats_lock' = 0
  /\ stats' = [stats EXCEPT ![w] = DefaultStats]
  /\ pc' = [pc EXCEPT ![w] =
              IF stats[w].total_attempts % 100 = 0 THEN "push" ELSE "test"]
  /\ hist' = [hist EXCEPT !.calls = @ + 1]
  /\ UNCHANGED <<fvars, ip_id, ip_address, future, shutdown_event,
                  STATS_FILE, cvars, mvars>>

PersistFailure(w) ==
  \/ UpdateLoadFail(w)
  \/ SaveOpenFail(w)
  \/ SaveDumpFail(w)

PersistWorker(w) ==
  \/ Worker(w)
  \/ PersistFailure(w)

NextPersist ==
  \/ \E w \in Workers : PersistWorker(w)
  \/ MainLoop
  \/ ExitWith
  \/ signal_handler

SpecPersist == Init /\ [][NextPersist]_vars

\* ------------------------------------ a run near the 100th attempt
\* The statistics file of earlier runs holds 98 or 99 attempts, all with
\* the same address outside the ranges.
InitPush ==
  /\ pc = [w \in 1..NumWorkers |-> "wait"]
  /\ Runtime(1..NumWorkers)
  /\ NoCall
  /\ \E n \in {98, 99} :
       STATS_FILE = [state |-> "ok",
                     data |-> [total_attempts |-> n,
                               ip_addresses |-> [a \in {IPv4(5, 188, 139, 255)}
                                                   |-> n]]]

PushWorker(w) ==
  \/ Worker(w)
  \/ Push(w)

NextPush ==
  \/ \E w \in Workers : PushWorker(w)
  \/ MainLoop
  \/ ExitWith
  \/ signal_handler

SpecPush == InitPush /\ [][NextPush]_vars

\* ------------------------------------------- update_statistics alone
\* MaxCalls calls of update_statistics from the worker threads against a
\* fresh store, each with one address
MaxCalls == 3

InUpdate(w) == pc[w] \in {"load", "save", "dump"}

\* a thread calls update_statistics(ip) (again)
StatsCaller(w) ==
  /\ pc[w] \in {"caller", "test"}
  /\ hist.calls + Cardinality({v \in Workers : InUpdate(v)}) < MaxCalls
  /\ \E a \in ProviderAddrs : ip_address' = [ip_address EXCEPT ![w] = a]
  /\ pc' = [pc EXCEPT ![w] = "load"]
  /\ UNCHANGED <<fvars, ip_id, stats, future, shutdown_event, svars, cvars, mvars,
                  hist>>

InitStats ==
  /\ pc = [w \in 1..NumWorkers |-> "caller"]
  /\ Globals(1..NumWorkers)
  /\ NoCall

StatsWorker(w) ==
  \/ StatsCaller(w)
  \/ UpdateLoad(w) \/ SaveOpen(w) \/ SaveDump(w)

NextStats == \E w \in Workers : StatsWorker(w)

SpecStats == InitStats /\ [][NextStats]_vars

\* ------------------------------------------------ end-to-end scenario
\* A provider that never fails and hands out a fixed sequence of addresses,
\* one per acquisition, to as many workers as it has addresses: two just
\* below the third range of IP_RANGES, one inside it, one above it, in the
\* order above, below, inside, below.
ScenarioAddrs ==
  << IPv4(5, 188, 144, 4), IPv4(5, 188, 139, 254),
     IPv4(5, 188, 140, 3), IPv4(5, 188, 139, 255) >>

\* create_floating_ip answers 2xx with the next address of the sequence
CreateScenario(w) ==
  /\ pc[w] = "create"
  /\ next_id <= Len(ScenarioAddrs)
  /\ ip_id' = [ip_id EXCEPT ![w] = next_id]
  /\ ip_address' = [ip_address EXCEPT ![w] = ScenarioAddrs[next_id]]
  /\ cloud' = cloud \cup {next_id}
  /\ next_id' = next_id + 1
  /\ reserved_ips' = reserved_ips \cup {next_id}
  /\ pc' = [pc EXCEPT ![w] = "load"]
  /\ UNCHANGED <<fvars, stats, future, shutdown_event, svars, mvars, hist>>

InitScenario ==
  /\ pc = [w \in 1..Len(ScenarioAddrs) |-> "wait"]
  /\ Globals(1..Len(ScenarioAddrs))
  /\ NoCall

ScenarioWorker(w) ==
  \/ human_like_wait(w)
  \/ CreateScenario(w)
  \/ UpdateLoad(w) \/ SaveOpen(w) \/ SaveDump(w)
  \/ TestRange(w)
  \/ DeleteOk(w)

NextScenario ==
  \/ \E w \in Workers : ScenarioWorker(w)
  \/ MainLoop
  \/ ExitWith

SpecScenario == InitScenario /\ [][NextScenario]_vars

\* ------------------------------------------------- is_ip_in_range alone
\* In the range tests an address is the 32-bit value of
\* ipaddress.IPv4Address held as its two 16-bit halves <<high, low>>,
\* compared as the 32-bit values compare
Addr(a, b, c, d) == <<a * 256 + b, c * 256 + d>>
Halves(v) == <<v \div 65536, v % 65536>>
Octets(x) == <<x[1] \div 256, x[1] % 256, x[2] \div 256, x[2] % 256>>

\* Faulty variant of AddrLeq: the comparison is strict.
AddrLeq_strict(x, y) == x[1] < y[1] \/ (x[1] = y[1] /\ x[2] < y[2])

\* x <= y
AddrLeq(x, y) == x[1] < y[1] \/ (x[1] = y[1] /\ x[2] <= y[2])

\* IP_RANGES of vk_cloud_ip_reserver.py
RESERVER_IP_RANGES ==
  [i \in 1..Len(IP_RANGES) |->
     <<Halves(IP_RANGES[i][1]), Halves(IP_RANGES[i][2])>>]

\* IP_RANGES of vk_cloud_vm_creator.py (the entries not commented out)
VM_IP_RANGES ==
  << <<Addr(95, 163, 248, 10), Addr(95, 163, 251, 250)>>,
     <<Addr(217, 16, 24, 1),   Addr(217, 16, 24, 2)>>,
     <<Addr(217, 16, 24, 3),   Addr(217, 16, 27, 253)>> >>

\* IP_RANGE_START, IP_RANGE_END of demo_ip_check.py
DEMO_IP_RANGE == << <<Addr(95, 163, 248, 10), Addr(95, 163, 251, 250)>> >>

\* a configuration with overlapping intervals, out of order, that reach
\* both ends of the address space
EDGE_IP_RANGES ==
  << <<Addr(255, 255, 255, 250), Addr(255, 255, 255, 255)>>,
     <<Addr(0, 0, 0, 3),         Addr(0, 0, 0, 9)>>,
     <<Addr(0, 0, 0, 0),         Addr(0, 0, 0, 5)>> >>

\* the sets the three programs are configured with, and all sets tested
ConfiguredSets == {RESERVER_IP_RANGES, VM_IP_RANGES, DEMO_IP_RANGE}
RangeSets == ConfiguredSets \cup {EDGE_IP_RANGES}

\* ipaddress.IPv4Address(ip_str): the text is given by its dot-separated
\* fields, a decimal field by its value and any other field by -1; it
\* parses when there are four fields, each a decimal number up to 255
Parses(s) == Len(s) = 4 /\ \A i \in 1..4 : s[i] \in 0..255
IPv4Address(s) == Addr(s[1], s[2], s[3], s[4])

\* Faulty variant of ScanRanges: every interval has to contain the address.
RECURSIVE ScanRanges_all(_, _, _)
ScanRanges_all(R, i, ip) ==
  IF i > Len(R) THEN TRUE
  ELSE IF AddrLeq(R[i][1], ip) /\ AddrLeq(ip, R[i][2])
         THEN ScanRanges_all(R, i + 1, ip)
         ELSE FALSE

\* for start, end in IP_RANGES: if start <= ip <= end: return True
\* return False
RECURSIVE ScanRanges(_, _, _)
ScanRanges(R, i, ip) ==
  IF i > Len(R) THEN FALSE
  ELSE IF AddrLeq(R[i][1], ip) /\ AddrLeq(ip, R[i][2])
         THEN TRUE
         ELSE ScanRanges(R, i + 1, ip)

\* is_ip_in_range(ip_str) with IP_RANGES = R; "except: return False"
is_ip_in_range_of(R, ip_str) ==
  IF Parses(ip_str) THEN ScanRanges(R, 1, IPv4Address(ip_str)) ELSE FALSE

\* the neighbours of an address, where the address space has them
HasPred(x) == x # Addr(0, 0, 0, 0)
HasSucc(x) == x # Addr(255, 255, 255, 255)
Pred(x) == IF x[2] > 0 THEN <<x[1], x[2] - 1>> ELSE <<x[1] - 1, 65535>>
Succ(x) == IF x[2] < 65535 THEN <<x[1], x[2] + 1>> ELSE <<x[1] + 1, 0>>

\* the inputs of the range tests: the bounds of every interval and their
\* neighbours, and texts that are no address
Probes(R) ==
  UNION { {R[i][1], R[i][2]}
          \cup (IF HasPred(R[i][1]) THEN {Pred(R[i][1])} ELSE {})
          \cup (IF HasSucc(R[i][2]) THEN {Succ(R[i][2])} ELSE {})
          : i \in 1..Len(R) }

Malformed ==
  { <<95, 163, 248>>, <<95, 163, 248, 10, 1>>, <<95, 163, 248, 256>>,
    <<-1, 163, 248, 10>>, <<>> }

RangeInputs ==
  { [ranges |-> R, ip |-> s] :
      R \in RangeSets,
      s \in {Octets(x) : x \in UNION {Probes(Q) : Q \in RangeSets}}
            \cup Malformed }

InitRange ==
  /\ pc = [w \in {1} |-> "call"]
  /\ Globals({1})
  /\ arg \in RangeInputs
  /\ ret = FALSE

CallRange ==
  /\ pc[1] = "call"
  /\ ret' = is_ip_in_range_of(arg.ranges, arg.ip)
  /\ pc' = [pc EXCEPT ![1] = "return"]
  /\ UNCHANGED <<arg, ip_id, ip_address, stats, future, shutdown_event,
                  svars, cvars, mvars, hist>>

NextRange == CallRange

SpecRange == InitRange /\ [][NextRange]_vars

\* ------------------------------------------------ human_like_delay alone
MaxSeconds == 3        \* largest min_seconds, max_seconds tried
Spread == 3            \* how far, in half seconds, a draw leaves [min, max]

\* int(x) of a float given in half units: truncation towards zero
TruncHalf(g) == IF g >= 0 THEN g \div 2 ELSE -((-g) \div 2)

\* "Clamp to bounds": max(min_seconds, min(max_seconds, delay))
Clamp(lo, hi, delay) == Max(lo, IF hi <= delay THEN hi ELSE delay)

\* human_like_delay(min_seconds, max_seconds, distribution); a.draw is what
\* the random source gives: random.gauss and random.expovariate in half
\* units, random.randint as it is.  1.0 / ((min + max) / 2) raises
\* ZeroDivisionError when min + max = 0
human_like_delay(a) ==
  IF a.distribution = "normal"
    THEN [raised |-> FALSE,
          delay |-> Clamp(a.min_seconds, a.max_seconds, TruncHalf(a.draw))]
  ELSE IF a.distribution = "exponential"
    THEN IF a.min_seconds + a.max_seconds = 0
           THEN [raised |-> TRUE, delay |-> 0]
           ELSE [raised |-> FALSE,
                 delay |-> Clamp(a.min_seconds, a.max_seconds,
                                 TruncHalf(a.draw))]
  ELSE [raised |-> FALSE,
        delay |-> Clamp(a.min_seconds, a.max_seconds, a.draw)]

\* the values the random source can give for the arguments: gauss(mean, std)
\* is any float, and mean itself when std = 0; expovariate is a float that
\* is not negative; randint(min, max) lies between the two
CanDraw(lo, hi, d, g) ==
  IF d = "normal"
    THEN IF lo = hi THEN g = lo + hi
         ELSE 2 * lo - Spread <= g /\ g <= 2 * hi + Spread
  ELSE IF d = "exponential"
    THEN IF lo + hi = 0 THEN g = 0 ELSE 0 <= g /\ g <= 2 * hi + Spread
  ELSE lo <= g /\ g <= hi

DelayInputs ==
  { a \in [min_seconds : 0..MaxSeconds, max_seconds : 0..MaxSeconds,
           distribution : {"normal", "exponential", "uniform"},
           draw : (0 - Spread)..(2 * MaxSeconds + Spread)] :
      /\ a.min_seconds <= a.max_seconds
      /\ CanDraw(a.min_seconds, a.max_seconds, a.distribution, a.draw) }

InitDelay ==
  /\ pc = [w \in {1} |-> "call"]
  /\ Globals({1})
  /\ arg \in DelayInputs
  /\ ret = [raised |-> FALSE, delay |-> 0]

CallDelay ==
  /\ pc[1] = "call"
  /\ ret' = human_like_delay(arg)
  /\ pc' = [pc EXCEPT ![1] = "return"]
  /\ UNCHANGED <<arg, ip_id, ip_address, stats, future, shutdown_event,
                  svars, cvars, mvars, hist>>

NextDelay == CallDelay

SpecDelay == InitDelay /\ [][NextDelay]_vars

\* --------------------------------------------- random_break_chance alone
MaxAttempt == 25       \* largest attempt number tried

\* Faulty variant of break_chance: the 25% cap is missing.
break_chance_uncapped(attempt) == 5 + attempt

\* min(0.05 + attempt * 0.01, 0.25), in hundredths
break_chance(attempt) == IF 5 + attempt <= 25 THEN 5 + attempt ELSE 25

\* random_break_chance(attempt): random.random() < min(break_chance, 0.25);
\* a.draw is random.random() in hundredths
random_break_chance(a) ==
  [chance |-> break_chance(a.attempt),
   result |-> a.draw < break_chance(a.attempt)]

BreakInputs == [attempt : 0..MaxAttempt, draw : {0, 4, 5, 24, 25, 99}]

InitBreak ==
  /\ pc = [w \in {1} |-> "call"]
  /\ Globals({1})
  /\ arg \in BreakInputs
  /\ ret = [chance |-> 0, result |-> FALSE]

CallBreak ==
  /\ pc[1] = "call"
  /\ ret' = random_break_chance(arg)
  /\ pc' = [pc EXCEPT ![1] = "return"]
  /\ UNCHANGED <<arg, ip_id, ip_address, stats, future, shutdown_event,
                  svars, cvars, mvars, hist>>

NextBreak == CallBreak

SpecBreak == InitBreak /\ [][NextBreak]_vars

\* ------------------------------------------------ human_like_wait alone
\* One call of human_like_wait(seconds) by a worker, tick by tick, while the
\* event may be set at any moment.  Times are in half seconds.
MaxWait == 12          \* largest seconds tried
check_interval == 5

\* the call returns value
WaitReturn(value) ==
  /\ ret' = [ret EXCEPT !.value = value]
  /\ pc' = [pc EXCEPT ![1] = "return"]

\* "while elapsed < seconds", "if shutdown_event.is_set(): return True" and
\* the micro-pause of 0.5 to 2 seconds (p = 0: none); "return False" when
\* the loop ends
WaitLoop ==
  /\ pc[1] = "loop"
  /\ IF ret.elapsed < 2 * arg.seconds
       THEN IF shutdown_event
              THEN WaitReturn(TRUE)
              ELSE \E p \in 0..4 :
                     /\ ret' = [ret EXCEPT !.elapsed = @ + p]
                     /\ pc' = [pc EXCEPT ![1] = "event_wait"]
       ELSE WaitReturn(FALSE)
  /\ UNCHANGED <<arg, ip_id, ip_address, stats, future, shutdown_event,
                  svars, cvars, mvars, hist>>

\* Faulty variant of WaitEvent: time.sleep(wait_time) in place of
\* shutdown_event.wait(wait_time).
WaitEvent_sleep ==
  /\ pc[1] = "event_wait"
  /\ ret' = [ret EXCEPT !.elapsed =
               IF 2 * check_interval <= 2 * arg.seconds - @
                 THEN @ + 2 * check_interval
                 ELSE 2 * arg.seconds]
  /\ pc' = [pc EXCEPT ![1] = "loop"]
  /\ UNCHANGED <<arg, ip_id, ip_address, stats, future, shutdown_event,
                  svars, cvars, mvars, hist>>

\* wait_time = min(check_interval, seconds - elapsed);
\* "if shutdown_event.wait(wait_time): return True"; elapsed += wait_time
WaitEvent ==
  /\ pc[1] = "event_wait"
  /\ IF shutdown_event
       THEN WaitReturn(TRUE)
       ELSE /\ ret' = [ret EXCEPT !.elapsed =
                         IF 2 * check_interval <= 2 * arg.seconds - @
                           THEN @ + 2 * check_interval
                           ELSE 2 * arg.seconds]
            /\ pc' = [pc EXCEPT ![1] = "loop"]
  /\ UNCHANGED <<arg, ip_id, ip_address, stats, future, shutdown_event,
                  svars, cvars, mvars, hist>>

\* the caller in the worker loop: "if human_like_wait(delay): return None",
\* else on to create_floating_ip
WaitCaller ==
  /\ pc[1] = "return"
  /\ IF ret.value
       THEN Complete(1, "None")
       ELSE /\ pc' = [pc EXCEPT ![1] = "create"]
            /\ UNCHANGED <<future, finished>>
  /\ UNCHANGED <<fvars, ip_id, ip_address, stats, shutdown_event, svars,
                  cvars, yielded, main_pc, outcome, main_result, exit_code,
                  hist>>

InitWait ==
  /\ pc = [w \in {1} |-> "loop"]
  /\ Globals({1})
  /\ arg \in [seconds : 0..MaxWait]
  /\ ret = [elapsed |-> 0, value |-> FALSE]

NextWait ==
  \/ WaitLoop
  \/ WaitEvent
  \/ WaitCaller
  \/ signal_handler

SpecWait == InitWait /\ [][NextWait]_vars

\* ------------------------------------------- telegram_bot_listener alone
\* The listener thread and the Telegram channel.  arg is the channel: the
\* texts of the updates sent so far, update i having update_id i.  ret holds
\* the listener's locals: last_update_id, the updates of the response being
\* worked through, and, for the properties, how often each update was
\* answered and how many polls brought updates.
MaxUpdates == 3        \* updates users send in one run

Commands == {"/stats", "/help"}

\* Faulty variant of BotOffset: the cursor itself is asked for.
BotOffset_same == ret.last_update_id

\* params = {"offset": last_update_id + 1, ...}
BotOffset == ret.last_update_id + 1

\* a user sends a message to the bot
BotArrive ==
  /\ Len(arg) < MaxUpdates
  /\ \E text \in Commands \cup {"hello"} : arg' = Append(arg, text)
  /\ UNCHANGED <<ret, wvars, shutdown_event, svars, cvars, mvars, hist>>

\* Faulty variant of BotPoll: "while True".
BotPoll_unchecked ==
  /\ pc[1] = "poll"
  /\ pc' = [pc EXCEPT ![1] = "request"]
  /\ UNCHANGED <<fvars, ip_id, ip_address, stats, future, shutdown_event,
                  svars, cvars, mvars, hist>>

\* "while not shutdown_event.is_set()": the loop ends, or getUpdates is
\* sent with the offset and the listener waits for the answer
BotPoll ==
  /\ pc[1] = "poll"
  /\ pc' = [pc EXCEPT ![1] = IF shutdown_event THEN "done" ELSE "request"]
  /\ UNCHANGED <<fvars, ip_id, ip_address, stats, future, shutdown_event,
                  svars, cvars, mvars, hist>>

\* the channel answers with the updates from the offset on, up to some
\* limit, or with none when the long poll times out
BotResponse ==
  /\ pc[1] = "request"
  /\ \E last \in (BotOffset - 1)..Len(arg) :
       LET result == [i \in 1..(last + 1 - BotOffset) |->
                        BotOffset + i - 1] IN
       /\ ret' = [ret EXCEPT !.batch = result,
                             !.polls = IF result = <<>> THEN @
                                       ELSE @ + 1]
       /\ pc' = [pc EXCEPT ![1] =
                   IF result = <<>> THEN "poll" ELSE "batch"]
  /\ UNCHANGED <<arg, ip_id, ip_address, stats, future, shutdown_event,
                  svars, cvars, mvars, hist>>

\* requests.get or raise_for_status raises: "except Exception"
BotPollFail ==
  /\ pc[1] = "request"
  /\ pc' = [pc EXCEPT ![1] = "backoff"]
  /\ UNCHANGED <<fvars, ip_id, ip_address, stats, future, shutdown_event,
                  svars, cvars, mvars, hist>>

\* one update of the response: the cursor moves, a command is answered
BotHandle ==
  /\ pc[1] = "batch"
  /\ LET update_id == Head(ret.batch) IN
       ret' = [ret EXCEPT
                 !.last_update_id = Max(@, update_id),
                 !.handled[update_id] =
                     IF arg[update_id] \in Commands THEN @ + 1 ELSE @,
                 !.batch = Tail(@)]
  /\ pc' = [pc EXCEPT ![1] =
              IF Tail(ret.batch) = <<>> THEN "poll" ELSE "batch"]
  /\ UNCHANGED <<arg, ip_id, ip_address, stats, future, shutdown_event,
                  svars, cvars, mvars, hist>>

\* answering raises after the cursor has moved: "except Exception" drops
\* the rest of the response
BotHandleFail ==
  /\ pc[1] = "batch"
  /\ ret' = [ret EXCEPT !.last_update_id = Max(@, Head(ret.batch)),
                        !.batch = <<>>]
  /\ pc' = [pc EXCEPT ![1] = "backoff"]
  /\ UNCHANGED <<arg, ip_id, ip_address, stats, future, shutdown_event,
                  svars, cvars, mvars, hist>>

\* "if not shutdown_event.wait(5): continue": the loop goes on either way
BotBackoff ==
  /\ pc[1] = "backoff"
  /\ pc' = [pc EXCEPT ![1] = "poll"]
  /\ UNCHANGED <<fvars, ip_id, ip_address, stats, future, shutdown_event,
                  svars, cvars, mvars, hist>>

InitBot ==
  /\ pc = [w \in {1} |-> "poll"]
  /\ Globals({1})
  /\ arg = <<>>
  /\ ret = [last_update_id |-> 0, batch |-> <<>>, polls |-> 0,
            handled |-> [i \in 1..MaxUpdates |-> 0]]

\* the listener thread
Listener ==
  \/ BotPoll
  \/ BotResponse
  \/ BotPollFail
  \/ BotHandle
  \/ BotHandleFail
  \/ BotBackoff

NextBot ==
  \/ BotArrive
  \/ BotPoll
  \/ BotResponse
  \/ BotPollFail
  \/ BotHandle
  \/ BotHandleFail
  \/ BotBackoff
  \/ signal_handler

SpecBot == InitBot /\ [][NextBot]_vars

\* Scheduling: the listener thread keeps running and the request it has
\* sent returns, with an answer or an exception.
FairBot == SpecBot /\ WF_vars(Listener)

\* ---------------------------------------- update_statistics, both programs
\* Threads that only record.  arg names the program: "ip" is the
\* floating-IP reserver, whose update_statistics takes one address, "vm"
\* the VM creator, whose update_statistics takes the list get_server_ips
\* returned and is called only "if ips".  Each program has its own file.
MaxIps == 2            \* addresses one server reports

\* addresses the provider gives servers in the model: the first address of
\* the VM creator's first interval and the address below it
VMAddrs == {Addr(95, 163, 248, 10), Addr(95, 163, 248, 9)}

IpLists == UNION {[1..n -> VMAddrs] : n \in 1..MaxIps}

\* the VM creator's update_statistics(ips) up to save_statistics
VMUpdateLoad(w) ==
  /\ pc[w] = "load"
  /\ stats' = [stats EXCEPT ![w] =
       [total_attempts |-> load_statistics.total_attempts + 1,
        ip_addresses |-> IncrAll(load_statistics.ip_addresses, ip_address[w])]]
  /\ pc' = [pc EXCEPT ![w] = "save"]
  /\ UNCHANGED <<fvars, ip_id, ip_address, future, shutdown_event, svars, cvars,
                  mvars, hist>>

\* a thread calls update_statistics (again)
RecordCaller(w) ==
  /\ pc[w] \in {"caller", "test"}
  /\ hist.calls + Cardinality({v \in Workers : InUpdate(v)}) < MaxCalls
  /\ \E a \in IF arg = "ip" THEN ProviderAddrs ELSE IpLists :
       ip_address' = [ip_address EXCEPT ![w] = a]
  /\ pc' = [pc EXCEPT ![w] = "load"]
  /\ UNCHANGED <<fvars, ip_id, stats, future, shutdown_event, svars, cvars, mvars,
                  hist>>

InitRecord ==
  /\ pc = [w \in 1..NumWorkers |-> "caller"]
  /\ Globals(1..NumWorkers)
  /\ arg \in {"ip", "vm"}
  /\ ret = 0

RecordWorker(w) ==
  \/ RecordCaller(w)
  \/ (arg = "ip" /\ UpdateLoad(w))
  \/ (arg = "vm" /\ VMUpdateLoad(w))
  \/ SaveOpen(w)
  \/ SaveDump(w)

NextRecord == \E w \in Workers : RecordWorker(w)

SpecRecord == InitRecord /\ [][NextRecord]_vars

\* ------------------------------------------------- process_vm_creation
\* The VM creator's worker.  ip_id is its local server_id, ip_address its
\* local ips (a list, once get_server_ips has returned), reserved_ips the
\* global created_vms, cloud the servers that exist.  The pauses, the
\* statistics file, main and signal_handler are those of the floating-IP
\* program, whose code the VM creator repeats.

\* create_server returned a body with an id: the id is tracked
VMCreateOk(w) ==
  /\ pc[w] = "create"
  /\ next_id <= MaxIds
  /\ ip_id' = [ip_id EXCEPT ![w] = next_id]
  /\ cloud' = cloud \cup {next_id}
  /\ next_id' = next_id + 1
  /\ reserved_ips' = reserved_ips \cup {next_id}
  /\ pc' = [pc EXCEPT ![w] = "poll"]
  /\ UNCHANGED <<fvars, ip_address, stats, future, shutdown_event, svars,
                  mvars, hist>>

\* wait_for_server_active returns True
VMReady(w) ==
  /\ pc[w] = "poll"
  /\ pc' = [pc EXCEPT ![w] = "get_ips"]
  /\ UNCHANGED <<fvars, ip_id, ip_address, stats, future, shutdown_event,
                  svars, cvars, mvars, hist>>

\* wait_for_server_active returns False: the event was seen set, describe
\* failed, the status was ERROR, or the deadline passed
VMNotReady(w) ==
  /\ pc[w] = "poll"
  /\ pc' = [pc EXCEPT ![w] = "unready"]
  /\ UNCHANGED <<fvars, ip_id, ip_address, stats, future, shutdown_event,
                  svars, cvars, mvars, hist>>

\* HTTP 401 from get_server_details, called by wait_for_server_active,
\* get_server_ips or configure_server_network
VMDetails401(w) ==
  /\ pc[w] \in {"poll", "get_ips", "configure"}
  /\ check_and_notify_auth_error(w, 0)
  /\ UNCHANGED <<fvars, ip_id, ip_address, stats, future, svars, cvars, mvars>>

\* after a readiness failure: delete_server returns True, the id is removed
\* from created_vms; human_like_wait(failure_delay) follows
VMUnreadyDeleteOk(w) ==
  /\ pc[w] = "unready"
  /\ cloud' = cloud \ {ip_id[w]}
  /\ reserved_ips' = reserved_ips \ {ip_id[w]}
  /\ pc' = [pc EXCEPT ![w] = "wait"]
  /\ hist' = HDelete(hist, ip_id[w])
  /\ Forget(w)
  /\ UNCHANGED <<fvars, stats, future, shutdown_event, next_id, svars, mvars>>

\* delete_server returns False: the id stays in created_vms
VMUnreadyDeleteFail(w) ==
  /\ pc[w] = "unready"
  /\ pc' = [pc EXCEPT ![w] = "wait"]
  /\ hist' = HDelete(hist, ip_id[w])
  /\ Forget(w)
  /\ UNCHANGED <<fvars, stats, future, shutdown_event, svars, cvars, mvars>>

\* delete_server meets HTTP 401
VMUnreadyDelete401(w) ==
  /\ pc[w] = "unready"
  /\ check_and_notify_auth_error(w, ip_id[w])
  /\ Forget(w)
  /\ UNCHANGED <<fvars, stats, future, svars, cvars, mvars>>

\* get_server_ips: the addresses of the server, [] when it reports none or
\* get_server_details failed
VMGetIps(w) ==
  /\ pc[w] = "get_ips"
  /\ \E ips \in IpLists \cup {<<>>} :
       ip_address' = [ip_address EXCEPT ![w] = ips]
  /\ pc' = [pc EXCEPT ![w] = "configure"]
  /\ UNCHANGED <<fvars, ip_id, stats, future, shutdown_event, svars, cvars,
                  mvars, hist>>

\* configure_server_network, whose result only decides on a warning; then
\* "if ips: update_statistics(ips)"
VMConfigure(w) ==
  /\ pc[w] = "configure"
  /\ pc' = [pc EXCEPT ![w] = IF ip_address[w] # <<>> THEN "load" ELSE "test"]
  /\ UNCHANGED <<fvars, ip_id, ip_address, stats, future, shutdown_event,
                  svars, cvars, mvars, hist>>

\* matching_ips = [ip for ip in ips if is_ip_in_range(ip)]
matching_ips(ips) ==
  {i \in 1..Len(ips) : is_ip_in_range_of(VM_IP_RANGES, Octets(ips[i]))}

\* "if matching_ips": the result dict is returned; else the server is deleted
VMTestRange(w) ==
  /\ pc[w] = "test"
  /\ IF matching_ips(ip_address[w]) # {}
       THEN /\ Complete(w, "Result")
            /\ hist' = IF hist.first # 0 THEN hist
                       ELSE [hist EXCEPT !.first = w,
                                         !.first_clear = ~shutdown_event]
       ELSE /\ pc' = [pc EXCEPT ![w] = "delete"]
            /\ UNCHANGED <<future, finished, hist>>
  /\ UNCHANGED <<fvars, ip_id, ip_address, stats, shutdown_event, svars, cvars,
                  yielded, main_pc, outcome, main_result, exit_code>>

VMWorker(w) ==
  \/ human_like_wait(w)
  \/ VMCreateOk(w) \/ CreateFail(w) \/ Create401(w)
  \/ VMReady(w) \/ VMNotReady(w) \/ VMDetails401(w)
  \/ VMUnreadyDeleteOk(w) \/ VMUnreadyDeleteFail(w) \/ VMUnreadyDelete401(w)
  \/ VMGetIps(w) \/ VMConfigure(w)
  \/ AuthExit(w)
  \/ VMUpdateLoad(w) \/ SaveOpen(w) \/ SaveDump(w)
  \/ VMTestRange(w)
  \/ DeleteOk(w) \/ DeleteFail(w) \/ Delete401(w)

NextVM ==
  \/ \E w \in Workers : VMWorker(w)
  \/ MainLoop
  \/ ExitWith
  \/ signal_handler

SpecVM == Init /\ [][NextVM]_vars

\* ----------------------------------------- wait_for_server_active alone
\* One call, SIGINT arriving at any moment.  arg.timeout is the timeout in
\* seconds; ret.elapsed is time.time() - start_time in whole seconds,
\* ret.status what the last get_server_details brought ("none": no call
\* yet, "failed": None was returned, "BUILD": any status that is neither
\* ACTIVE nor ERROR), ret.value the value returned.
MaxTimeout == 10       \* largest timeout tried besides the default
MaxRtt == 2            \* longest get_server_details call, in seconds
DefaultTimeout == 300
CheckIntervals == 3..8

\* the call returns ret.value
ReadyReturn == pc' = [pc EXCEPT ![1] = "return"]

\* "while time.time() - start_time < timeout", "if shutdown_event.is_set():
\* return False"; "return False" when the loop ends
ReadyLoop ==
  /\ pc[1] = "loop"
  /\ IF ret.elapsed < arg.timeout
       THEN IF shutdown_event
              THEN /\ ReadyReturn
                   /\ ret' = [ret EXCEPT !.value = FALSE]
              ELSE /\ pc' = [pc EXCEPT ![1] = "describe"]
                   /\ ret' = ret
       ELSE /\ ReadyReturn
            /\ ret' = [ret EXCEPT !.value = FALSE]
  /\ UNCHANGED <<arg, ip_id, ip_address, stats, future, shutdown_event,
                  svars, cvars, mvars, hist>>

\* get_server_details returns after d seconds, and the status decides
ReadyDescribe ==
  /\ pc[1] = "describe"
  /\ \E d \in 0..MaxRtt, status \in {"failed", "ACTIVE", "ERROR", "BUILD"} :
       /\ ret' = [ret EXCEPT !.elapsed = @ + d,
                             !.status = status,
                             !.value = (status = "ACTIVE")]
       /\ IF status = "BUILD"
            THEN pc' = [pc EXCEPT ![1] = "interval"]
            ELSE ReadyReturn
  /\ UNCHANGED <<arg, ip_id, ip_address, stats, future, shutdown_event,
                  svars, cvars, mvars, hist>>

\* get_server_details meets HTTP 401: check_and_notify_auth_error
ReadyDescribe401 ==
  /\ pc[1] = "describe"
  /\ check_and_notify_auth_error(1, 0)
  /\ UNCHANGED <<fvars, ip_id, ip_address, stats, future, svars, cvars, mvars>>

\* Faulty variant of ReadyInterval: time.sleep(check_interval) in place of
\* shutdown_event.wait(check_interval).
ReadyInterval_sleep ==
  /\ pc[1] = "interval"
  /\ \E c \in CheckIntervals : ret' = [ret EXCEPT !.elapsed = @ + c]
  /\ pc' = [pc EXCEPT ![1] = "loop"]
  /\ UNCHANGED <<arg, ip_id, ip_address, stats, future, shutdown_event,
                  svars, cvars, mvars, hist>>

\* check_interval = random.randint(3, 8);
\* "if shutdown_event.wait(check_interval): return False"
ReadyInterval ==
  /\ pc[1] = "interval"
  /\ IF shutdown_event
       THEN /\ ReadyReturn
            /\ ret' = [ret EXCEPT !.value = FALSE]
       ELSE /\ \E c \in CheckIntervals : ret' = [ret EXCEPT !.elapsed = @ + c]
            /\ pc' = [pc EXCEPT ![1] = "loop"]
  /\ UNCHANGED <<arg, ip_id, ip_address, stats, future, shutdown_event,
                  svars, cvars, mvars, hist>>

\* the caller: "if not client.wait_for_server_active(server_id):" and the
\* delete_server branch, else get_server_ips
ReadyCaller ==
  /\ pc[1] = "return"
  /\ pc' = [pc EXCEPT ![1] = IF ret.value THEN "get_ips" ELSE "unready"]
  /\ UNCHANGED <<fvars, ip_id, ip_address, stats, future, shutdown_event,
                  svars, cvars, mvars, hist>>

InitReady ==
  /\ pc = [w \in {1} |-> "loop"]
  /\ Globals({1})
  /\ arg \in [timeout : (0..MaxTimeout) \cup {DefaultTimeout}]
  /\ ret = [elapsed |-> 0, status |-> "none", value |-> FALSE]

NextReady ==
  \/ ReadyLoop
  \/ ReadyDescribe
  \/ ReadyDescribe401
  \/ ReadyInterval
  \/ ReadyCaller
  \/ AuthExit(1)
  \/ signal_handler

SpecReady == InitReady /\ [][NextReady]_vars

\* ------------------------------- check_and_notify_auth_error, step by step
\* The protocol with the 401 path in its three steps: shutdown_event.set()
\* (check_and_notify_auth_error above), then get_statistics_message and
\* send_telegram_message, then time.sleep(2) and sys.exit(1).  ret is the
\* set of workers whose final summary went to send_telegram_message.

\* stats_msg = get_statistics_message(); send_telegram_message(msg)
AuthSummary(w) ==
  /\ pc[w] = "auth_exit"
  /\ w \notin ret
  /\ ret' = ret \cup {w}
  /\ UNCHANGED <<arg, wvars, shutdown_event, svars, cvars, mvars, hist>>

\* Faulty variant of AuthSysExit: sys.exit(1) does not wait for the summary.
AuthSysExit_early(w) == AuthExit(w)

\* time.sleep(2); sys.exit(1)
AuthSysExit(w) ==
  /\ w \in ret
  /\ AuthExit(w)

InitAuth ==
  /\ pc = [w \in 1..NumWorkers |-> "wait"]
  /\ Globals(1..NumWorkers)
  /\ arg = <<>>
  /\ ret = {}

AuthWorker(w) ==
  \/ human_like_wait(w)
  \/ CreateOk(w) \/ CreateNoAddr(w) \/ CreateFail(w) \/ Create401(w)
  \/ AuthSummary(w) \/ AuthSysExit(w)
  \/ UpdateLoad(w) \/ SaveOpen(w) \/ SaveDump(w)
  \/ TestRange(w)
  \/ DeleteOk(w) \/ DeleteFail(w) \/ Delete401(w)

NextAuth ==
  \/ \E w \in Workers : AuthWorker(w)
  \/ MainLoop
  \/ ExitWith
  \/ signal_handler

SpecAuth == InitAuth /\ [][NextAuth]_vars

\* ------------------------------- get_time_based_delay_multiplier alone
\* arg is the program ("ip": the floating-IP reserver, "vm": the VM
\* creator) and the hour datetime.now().hour gives while the calls are
\* made; ret is the list of the values returned so far, in tenths.
MaxEvals == 2          \* calls made within the hour

\* the bounds handed to random.uniform, in tenths
uniform_bounds(program, hour) ==
  IF 9 <= hour /\ hour <= 18
    THEN IF program = "ip" THEN <<9, 11>> ELSE <<8, 12>>
  ELSE IF 18 < hour /\ hour <= 22
    THEN IF program = "ip" THEN <<10, 13>> ELSE <<10, 15>>
  ELSE IF hour >= 22 \/ hour < 6
    THEN IF program = "ip" THEN <<12, 18>> ELSE <<15, 30>>
  ELSE IF program = "ip" THEN <<11, 14>> ELSE <<12, 18>>

\* the values one call can return: random.uniform(a, b) is anywhere in [a, b]
get_time_based_delay_multiplier(program, hour) ==
  uniform_bounds(program, hour)[1]..uniform_bounds(program, hour)[2]

CallMult ==
  /\ pc[1] = "call"
  /\ Len(ret) < MaxEvals
  /\ \E m \in get_time_based_delay_multiplier(arg.program, arg.hour) :
       ret' = Append(ret, m)
  /\ UNCHANGED <<arg, wvars, shutdown_event, svars, cvars, mvars, hist>>

InitMult ==
  /\ pc = [w \in {1} |-> "call"]
  /\ Globals({1})
  /\ arg \in [program : {"ip", "vm"}, hour : 0..23]
  /\ ret = <<>>

NextMult == CallMult

SpecMult == InitMult /\ [][NextMult]_vars

\* ================================================================ claims
Succeeded == {w \in Workers : future[w] = "Result"}

\* C1: no lost updates: once K update_statistics calls, each with one
\* address, have returned and none is in progress, the persisted record
\* has total_attempts = K and its address counts sum to K.
C1_NoLostUpdates ==
  (\A w \in Workers : ~InUpdate(w)) =>
    /\ STATS_FILE.data.total_attempts = hist.calls
    /\ SumCounts(STATS_FILE.data.ip_addresses,
                 DOMAIN STATS_FILE.data.ip_addresses) = hist.calls

\* C2: load -> increment -> persist is one critical section: at most one
\* worker is between having loaded the record and having persisted it.
C2_SingleCriticalSection ==
  Cardinality({w \in Workers : pc[w] \in {"save", "dump"}}) <= 1

\* C3: a result is produced at most once per run: at most one worker ever
\* returns a match result.
C3_AtMostOneResult == Cardinality(Succeeded) <= 1

\* C4: first-match exclusivity: when main has returned a result and the
\* process completes, no floating IP a worker reserved and tracked, other
\* than the returned one, is still allocated.
C4_OthersReleased ==
  (main_pc = "exited" /\ outcome = "result") =>
     (cloud \cap reserved_ips) \subseteq {main_result}

\* C5 (as claimed): no create_floating_ip call starts in a state in which
\* shutdown_event is set.
C5_NoAcquisitionOnceStopping ==
  [][\A w \in Workers :
       (pc[w] = "create" /\ pc'[w] # "create") => ~shutdown_event]_vars

\* C5 (amended): a worker reaches the create_floating_ip call only straight
\* from a shutdown check that found the event clear.
C5_AcquisitionFollowsClearCheck ==
  [][\A w \in Workers :
       (pc[w] # "create" /\ pc'[w] = "create") =>
          (pc[w] = "wait" /\ ~shutdown_event)]_vars

\* a worker is past its last check, about to reserve, and the event is set
C5_Witness == \E w \in Workers : pc[w] = "create" /\ shutdown_event

\* C6: a 401 when no worker has succeeded makes the process exit with
\* code 1 (no interrupt involved), never 0.
C6_AuthErrorExitsOne ==
  ( /\ main_pc = "exited"
    /\ outcome # "interrupt"
    /\ \E w \in Workers : future[w] = "SystemExit"
    /\ Succeeded = {} ) => exit_code = 1

\* C7: after a 401 halted the run (no interrupt involved), a release has
\* been attempted, by the time the process exits, for every id that was in
\* reserved_ips at the 401 and that no worker returned as its match.
C7_CleanupAfterAuthFailure ==
  (main_pc = "exited" /\ outcome # "interrupt" /\ AuthFailed) =>
     hist.uncleaned \subseteq {ip_id[w] : w \in Succeeded}

\* C8: shutdown_event is monotonic and setting it is idempotent: once set
\* it is set in every later state, whatever further set calls follow.
C8_ShutdownMonotonic == [][shutdown_event => shutdown_event']_vars

\* the event is set and was set twice: by a 401 and by the interrupt
C8_Witness ==
  /\ shutdown_event
  /\ outcome = "interrupt"
  /\ \E w \in Workers : pc[w] = "auth_exit"

\* C9: the persisted total_attempts never decreases: no complete record
\* on disk has a total_attempts below one persisted earlier.
C9_TotalNonDecreasing ==
  STATS_FILE.state = "ok" =>
    STATS_FILE.data.total_attempts >= hist.max_total

\* C10: when a worker returned a match (the first one, with the event
\* still clear) and no interrupt came, main returns that worker's result.
C10_FirstSuccessReturned ==
  ( /\ main_pc = "exited"
    /\ outcome # "interrupt"
    /\ hist.first # 0
    /\ hist.first_clear ) =>
      (outcome = "result" /\ main_result = ip_id[hist.first])

\* C11: end-to-end scenario: when the four acquisitions of the scenario have
\* been made and the process has exited, main has returned the result of
\* the worker that received the in-range address, the other three
\* floating IPs are released, and the persisted total_attempts is 4.
C11_ScenarioOutcome ==
  (main_pc = "exited" /\ next_id > Len(ScenarioAddrs)) =>
     /\ outcome = "result"
     /\ \E w \in Succeeded :
          /\ ip_id[w] = main_result
          /\ is_ip_in_range(ip_address[w])
     /\ cloud = {main_result}
     /\ STATS_FILE.data.total_attempts = Len(ScenarioAddrs)

\* a step of worker w in which create_floating_ip or delete_floating_ip
\* failed with an error that is no 401: the call is over, nothing was
\* allocated or released, and the worker is not in the 401 handling
TransientFailure(w) ==
  /\ pc'[w] # "auth_exit"
  /\ \/ pc[w] = "create" /\ pc'[w] # "create" /\ next_id' = next_id
     \/ pc[w] = "delete" /\ pc'[w] # "delete" /\ ip_id[w] \in cloud'

\* C12: a transient failure of create or delete is contained: the step
\* leaves shutdown_event as it was, completes no future, moves no other
\* worker, and puts the worker itself back at the top of its loop.
C12_TransientContained ==
  [][\A w \in Workers : TransientFailure(w) =>
        /\ shutdown_event' = shutdown_event
        /\ future' = future
        /\ pc'[w] = "wait"
        /\ \A v \in Workers \ {w} : pc'[v] = pc[v]]_vars

\* a delete has failed (an id is tracked and allocated, and no worker holds
\* it any more), the event is clear and every worker is still in its loop
C12_Witness ==
  /\ ~shutdown_event
  /\ \A w \in Workers : pc[w] # "done"
  /\ \E id \in cloud \cap reserved_ips : \A w \in Workers : ip_id[w] # id

\* the range test has returned for the text of address x
Tested(x) == pc[1] = "return" /\ arg.ip = Octets(x)

\* x lies in an interval of R other than the i-th
InOther(R, i, x) ==
  \E j \in (1..Len(R)) \ {i} : AddrLeq(R[j][1], x) /\ AddrLeq(x, R[j][2])

\* C13 (as claimed): for every interval [low, high] of the configured sets
\* of the programs the test is true for low and high and false for low-1
\* and high+1.
C13_Boundaries ==
  arg.ranges \in ConfiguredSets =>
    \A i \in 1..Len(arg.ranges) :
      LET low == arg.ranges[i][1]
          high == arg.ranges[i][2] IN
      /\ (Tested(low) \/ Tested(high)) => ret
      /\ (HasPred(low) /\ Tested(Pred(low))) => ~ret
      /\ (HasSucc(high) /\ Tested(Succ(high))) => ~ret

\* C13 (amended): the test is true for low and high; it is false for
\* low-1 and for high+1 unless that neighbour lies in another interval of
\* the set.
C13_BoundariesOfUnion ==
  \A i \in 1..Len(arg.ranges) :
    LET low == arg.ranges[i][1]
        high == arg.ranges[i][2] IN
    /\ (Tested(low) \/ Tested(high)) => ret
    /\ (HasPred(low) /\ Tested(Pred(low))) =>
          (ret <=> InOther(arg.ranges, i, Pred(low)))
    /\ (HasSucc(high) /\ Tested(Succ(high))) =>
          (ret <=> InOther(arg.ranges, i, Succ(high)))

\* 217.16.24.3, the upper neighbour of the second interval of the VM
\* creator's set and the lower bound of its third, was tested: in range
C13_Witness ==
  /\ arg.ranges = VM_IP_RANGES
  /\ Tested(Succ(VM_IP_RANGES[2][2]))
  /\ ret

\* C14: the test is total with union semantics: it returns true exactly
\* when the text parses and the address lies in at least one interval,
\* and false for a text that does not parse.
C14_UnionTotal ==
  pc[1] = "return" =>
    (ret <=> /\ Parses(arg.ip)
             /\ \E i \in 1..Len(arg.ranges) :
                  /\ AddrLeq(arg.ranges[i][1], IPv4Address(arg.ip))
                  /\ AddrLeq(IPv4Address(arg.ip), arg.ranges[i][2]))

\* an address in the second interval only of the overlapping set, listed
\* before the interval that starts the union, was tested: in range
C14_Witness ==
  /\ arg.ranges = EDGE_IP_RANGES
  /\ Tested(Addr(0, 0, 0, 9))
  /\ ret

\* C15: backoff bounds: for min <= max, every distribution and every value
\* of the random source, human_like_delay returns d with min <= d <= max.
C15_DelayWithinBounds ==
  (pc[1] = "return" /\ arg.min_seconds <= arg.max_seconds) =>
     /\ ~ret.raised
     /\ arg.min_seconds <= ret.delay
     /\ ret.delay <= arg.max_seconds

\* C16: the break probability is non-decreasing in attempt and never above
\* the cap of 25%; the function breaks exactly when the draw is below it.
C16_BreakChanceMonotoneCapped ==
  pc[1] = "return" =>
     /\ ret.chance <= 25
     /\ ret.chance <= break_chance(arg.attempt + 1)
     /\ \A n \in 0..arg.attempt : break_chance(n) <= ret.chance
     /\ ret.result <=> arg.draw < ret.chance

\* the cap is in effect: an attempt for which 5% + attempt * 1% is above 25%
C16_Witness ==
  /\ pc[1] = "return"
  /\ 5 + arg.attempt > 25
  /\ ret.chance = 25
  /\ ~ret.result
  /\ arg.draw = 25

\* C17: once shutdown_event is set, every worker eventually leaves its loop
\* and main eventually completes (every provider call returns).
C17_TerminationAfterShutdown ==
  shutdown_event ~>
    ((\A w \in 1..NumWorkers : pc[w] = "done") /\ main_pc = "exited")

\* the process is over after a shutdown that found a worker between its
\* reservation and its release: the worker released, then left its loop
C17_Witness ==
  /\ shutdown_event
  /\ main_pc = "exited"
  /\ \A w \in Workers : pc[w] = "done"
  /\ \E w \in Workers : future[w] = "None"
  /\ next_id > 1
  /\ cloud = {}

\* C19: a worker that found a match has set shutdown_event itself before it
\* returned: whenever a worker has returned a result, the event is set.
C19_SucceededImpliesSignalled ==
  (\E w \in Workers : future[w] = "Result") => shutdown_event

\* a step in which get_statistics_message runs: in signal_handler, or in
\* check_and_notify_auth_error of a worker
SnapshotStep ==
  \/ signal_handler
  \/ \E w \in Workers : Create401(w) \/ Delete401(w)

\* C20: a snapshot never runs while another thread is inside the persist
\* step of save_statistics, so it never reads a truncated file.
C20_SnapshotExcludesPersist ==
  [][SnapshotStep => (stats_lock = 0 /\ STATS_FILE.state # "partial")]_vars

\* human_like_wait is at a tick boundary with time left
AtTick ==
  \/ pc[1] = "loop" /\ ret.elapsed < 2 * arg.seconds
  \/ pc[1] = "event_wait"

\* C18: human_like_wait returns True at the tick boundary at which the
\* event is set; it returns True only with the event set, and False only
\* when the whole duration has elapsed; the caller leaves the worker loop
\* on True and goes on to the reservation only on False.
C18_CancellableWait ==
  /\ [][(AtTick /\ shutdown_event /\ pc'[1] # pc[1]) =>
          (pc'[1] = "return" /\ ret'.value)]_vars
  /\ [](pc[1] \in {"return", "create", "done"} =>
          /\ ret.value => shutdown_event
          /\ ~ret.value => ret.elapsed >= 2 * arg.seconds)
  /\ [](pc[1] = "create" => ~ret.value)
  /\ [](pc[1] = "done" => (ret.value /\ future[1] = "None"))

\* a wait was cancelled at a tick boundary, part of the way through, and
\* the caller left the loop
C18_Witness ==
  /\ pc[1] = "done"
  /\ ret.value
  /\ ret.elapsed > 0
  /\ ret.elapsed < 2 * arg.seconds

\* C21: no lock is held across a network call: a thread that holds
\* stats_lock is in no provider call and no Telegram send, and the
\* every-100th push is sent after the lock was released.
C21_NoLockAcrossNetwork ==
  \A w \in Workers :
    stats_lock = w => pc[w] \notin {"create", "delete", "push", "auth_exit"}

\* a worker is sending the every-100th push while another holds the lock
C21_Witness ==
  \E w \in Workers :
    /\ pc[w] = "push"
    /\ stats_lock \in Workers \ {w}

\* C22: a persistence failure in update_statistics is absorbed: the failing
\* step sets no event and completes no future, and every step of
\* update_statistics, failing or not, leaves the worker in
\* update_statistics or at the range test, with the same resource.
C22_PersistenceFailureAbsorbed ==
  [][\A w \in Workers :
       /\ PersistFailure(w) =>
            (shutdown_event' = shutdown_event /\ future' = future)
       /\ (pc[w] \in {"load", "save", "dump", "push"} /\ pc'[w] # pc[w]) =>
            /\ pc'[w] \in {"save", "dump", "push", "test"}
            /\ ip_id'[w] = ip_id[w]
            /\ ip_address'[w] = ip_address[w]]_vars

\* json.dump has failed (the file is incomplete and nobody is writing it)
\* and a worker is at the range test with its resource, the event clear
C22_Witness ==
  /\ STATS_FILE.state = "partial"
  /\ stats_lock = 0
  /\ ~shutdown_event
  /\ \E w \in Workers : pc[w] = "test" /\ ip_id[w] \in cloud

\* C23: only the owning worker releases or promotes a resource: no id is
\* held by two workers, every id that leaves the provider is the one of a
\* worker at its delete call, a worker returns as its result an id it
\* holds, and a returned result stays allocated.
C23_OwnerReleasesOrPromotes ==
  /\ [](\A w \in Workers : ip_id[w] # 0 =>
          \A v \in Workers \ {w} : ip_id[v] # ip_id[w])
  /\ [](\A w \in Succeeded : ip_id[w] \in cloud)
  /\ [][\A id \in cloud \ cloud' :
          \E w \in Workers : pc[w] = "delete" /\ ip_id[w] = id]_vars

\* one worker has released its floating IP and another has returned its own
C23_Witness ==
  \E w \in Succeeded :
    /\ cloud = {ip_id[w]}
    /\ next_id > 2

\* C24: polling never replays a command: last_update_id never decreases,
\* a response holds only updates above it, and every update is answered
\* at most once over all polls.
C24_NoReplay ==
  /\ [][ret'.last_update_id >= ret.last_update_id]_vars
  /\ [](\A i \in 1..Len(ret.batch) : ret.batch[i] > ret.last_update_id)
  /\ [](\A i \in DOMAIN ret.handled : ret.handled[i] <= 1)

\* two polls have brought updates and two commands were answered, once each
C24_Witness ==
  /\ ret.polls >= 2
  /\ ret.last_update_id >= 2
  /\ ret.handled[1] = 1
  /\ ret.handled[2] = 1

\* C25: a worker that leaves a mismatch for its next reservation has
\* released the address it held and removed it from reserved_ips, so it
\* never holds more than one.
C25_ReleasedBeforeNext ==
  [][\A w \in Workers :
       (pc[w] = "delete" /\ pc'[w] = "wait") =>
         /\ ip_id[w] \notin cloud'
         /\ ip_id[w] \notin reserved_ips']_vars

\* C27: every id a successful reservation returned, with or without an
\* address beside it, and not yet released is in reserved_ips.
C27_AcquiredTracked == \A id \in cloud : id \in reserved_ips

\* C29: in every persisted record the address counts add up to at least
\* total_attempts, and in the floating-IP program, one address a call, to
\* exactly total_attempts, whatever the interleaving of the callers.
C29_CountsCoverAttempts ==
  STATS_FILE.state = "ok" =>
    LET d == STATS_FILE.data
        sum == SumCounts(d.ip_addresses, DOMAIN d.ip_addresses) IN
    /\ sum >= d.total_attempts
    /\ arg = "ip" => sum = d.total_attempts

\* a record persisted by the floating-IP program after an update was lost
C29_Witness ==
  /\ arg = "ip"
  /\ STATS_FILE.state = "ok"
  /\ STATS_FILE.data.total_attempts >= 1
  /\ hist.calls > STATS_FILE.data.total_attempts

\* C26: when wait_for_server_active has returned False the worker deletes
\* the server and removes it from created_vms before it goes on or exits,
\* and neither records nor tests it.
C26_UnreadyReleased ==
  [][\A w \in Workers :
       (pc[w] = "unready" /\ pc'[w] # "unready") =>
         /\ ip_id[w] \notin cloud'
         /\ ip_id[w] \notin reserved_ips'
         /\ pc'[w] \notin {"load", "save", "dump", "test"}]_vars

\* C28: a worker reaches the range test only out of update_statistics, so
\* every iteration past the readiness wait records once, address or none,
\* and an iteration that failed to create or to get ready never records.
C28_RecordedBeforeTest ==
  [][\A w \in Workers :
       /\ (pc'[w] = "test" /\ pc[w] # "test") => pc[w] \in {"dump", "push"}
       /\ (pc'[w] = "load" /\ pc[w] # "load") => pc[w] = "configure"]_vars

\* C30: wait_for_server_active returns True only after get_server_details
\* brought status ACTIVE; it polls only after finding the event clear and
\* returns False from the wait between polls once the event is set; it
\* returns False after a failed describe, after status ERROR and when the
\* loop test finds the timeout used up; and returning never sets the event.
C30_ReadyOnlyWhenActive ==
  /\ []((pc[1] \in {"return", "get_ips"} /\ ret.value) => ret.status = "ACTIVE")
  /\ []((pc[1] = "return" /\ ret.status \in {"failed", "ERROR"}) => ~ret.value)
  /\ [][(pc'[1] = "describe" /\ pc[1] # "describe") =>
          (pc[1] = "loop" /\ ~shutdown_event)]_vars
  /\ [][(pc[1] = "interval" /\ shutdown_event /\ pc'[1] # "interval") =>
          (pc'[1] = "return" /\ ~ret'.value)]_vars
  /\ [][(pc[1] = "loop" /\ ret.elapsed >= arg.timeout /\ pc'[1] # "loop") =>
          (pc'[1] = "return" /\ ~ret'.value)]_vars
  /\ [][(pc'[1] = "return" /\ pc[1] # "return") =>
          shutdown_event' = shutdown_event]_vars

\* the call timed out after polling, and the event is still clear
C30_Witness ==
  /\ pc[1] = "return"
  /\ ~ret.value
  /\ ret.status = "BUILD"
  /\ ret.elapsed >= arg.timeout
  /\ arg.timeout = DefaultTimeout
  /\ ~shutdown_event

\* C31: on a 401 the worker sets shutdown_event, then sends the final
\* summary, then terminates: the summary goes out with the event set, and
\* a worker that has ended in SystemExit has set the event and sent it.
C31_AuthOrder ==
  /\ [](\A w \in Workers :
          future[w] = "SystemExit" => (shutdown_event /\ w \in ret))
  /\ [][\A w \in Workers :
          (w \in ret' /\ w \notin ret) =>
             (shutdown_event /\ future[w] = "pending")]_vars

\* a worker has ended in SystemExit while another is still in its loop
C31_Witness ==
  \E w \in Workers :
    /\ future[w] = "SystemExit"
    /\ \E v \in Workers \ {w} : pc[v] \in {"load", "save", "dump", "test", "delete"}

\* C32: get_time_based_delay_multiplier is a function of the clock hour:
\* two calls within the same hour return the same value.
C32_SameHourSameValue == \A i, j \in 1..Len(ret) : ret[i] = ret[j]

\* C33: the interim push is sent once for each multiple of 100 that
\* total_attempts reaches: a worker goes on to the push only with a total
\* that is a multiple of 100 and that no earlier call has persisted.
C33_OnePushPerHundred ==
  [][\A w \in Workers :
       (pc[w] = "dump" /\ pc'[w] = "push") =>
         /\ stats[w].total_attempts % 100 = 0
         /\ stats[w].total_attempts > hist.max_total]_vars

C35_ResultNeverReleased ==
  /\ [][\A v \in Succeeded : ip_id[v] \in cloud => ip_id[v] \in cloud']_vars
  /\ [][\A w \in Workers :
          (pc[w] = "delete" /\ pc'[w] # "delete") =>
            \A v \in Succeeded : ip_id[v] # ip_id[w]]_vars
  /\ [](\A v \in Succeeded : ip_id[v] # 0 /\ pc[v] = "done")

\* a result was returned, another worker met a 401, SIGINT came, and the
\* process has ended with the result still allocated
C35_Witness ==
  \E v \in Succeeded :
    /\ ip_id[v] \in cloud
    /\ \E w \in Workers : future[w] = "SystemExit"
    /\ outcome = "interrupt"
    /\ main_pc = "exited"

\* C36: reserved_ips holds the ids reserved with an id and an address and
\* not yet deleted with success: an id enters it with the reservation that
\* returned it and its address, leaves it only with the successful delete
\* of the worker holding it, and a failed delete leaves the list as it was.
C36_TrackingExact ==
  /\ [](reserved_ips \subseteq cloud)
  /\ [][\A id \in reserved_ips' \ reserved_ips :
          \E w \in Workers : /\ pc[w] = "create"
                             /\ ip_id'[w] = id
                             /\ ip_address'[w] # NoAddr
                             /\ id \in cloud' \ cloud]_vars
  /\ [][\A w \in Workers :
          (pc[w] = "create" /\ ip_id'[w] # ip_id[w]) =>
             ip_id'[w] \in reserved_ips']_vars
  /\ [][\A id \in reserved_ips \ reserved_ips' :
          \E w \in Workers : /\ pc[w] = "delete"
                             /\ ip_id[w] = id
                             /\ id \in cloud \ cloud']_vars
  /\ [][\A id \in cloud \ cloud' : id \notin reserved_ips']_vars
  /\ [][\A w \in Workers :
          (pc[w] = "delete" /\ pc'[w] # "delete" /\ ip_id[w] \in cloud') =>
             reserved_ips' = reserved_ips]_vars

\* a delete has failed: the id is tracked and allocated, held by no worker,
\* while another reservation has been deleted with success
C36_Witness ==
  /\ \E id \in reserved_ips : \A w \in Workers : ip_id[w] # id
  /\ next_id > 2
  /\ Cardinality(cloud) = 1

\* C37: a worker does not give up holding an address it has not tried to
\* release: a reservation that succeeded takes the worker straight into
\* the record, test and release-or-keep path, which has no shutdown check,
\* and the worker returns None only from a pause, holding nothing.
C37_NoAbortWhileHolding ==
  [][\A w \in Workers :
       /\ (pc[w] = "create" /\ cloud' # cloud) => pc'[w] = "load"
       /\ (future[w] = "pending" /\ future'[w] = "None") =>
            (pc[w] = "wait" /\ ip_id[w] = 0)]_vars

\* C38: main returns, with a result or after "Process completed", only
\* when every worker has ended: leaving the executor's "with" joins them.
C38_MainReturnsAfterWorkers ==
  /\ [](main_pc = "exited" =>
          \A w \in Workers : pc[w] = "done" /\ future[w] # "pending")
  /\ [][(main_pc' = "exited" /\ main_pc # "exited") =>
          \A w \in Workers : future[w] # "pending"]_vars

\* main has returned the result of one worker after the other, who had
\* still been in its loop, returned None
C38_Witness ==
  /\ main_pc = "exited"
  /\ outcome = "result"
  /\ \E w \in Workers : future[w] = "None"
  /\ cloud # {}

====
